---- MODULE Spec2Model ----
(***************************************************************************)
(* Warehouse occupancy dashboard (src/main.py): one Streamlit script that  *)
(* is re-run from top to bottom on every user interaction.  A run reads the*)
(* three capacity inputs, warns when they are inconsistent, loads and      *)
(* cleans the uploaded sheet (load_data) and, when a table came back,      *)
(* aggregates and renders it (display_dashboard).                          *)
(*                                                                         *)
(* Text is modelled as sequences of one-character strings so that strip,   *)
(* replace, startswith and the numeric parse are computed, not assumed.    *)
(* A float is an exact decimal [m, e] standing for m / 10^e.               *)
(***************************************************************************)
EXTENDS Integers, Sequences, FiniteSets, TLC

(* ------------------------------ bounds -------------------------------- *)
\* most data rows a sheet has
MaxRows == 2
\* largest capacity an operator types in, besides the defaults
MaxCap == 1

(* --------------------------- text literals ---------------------------- *)
S_Altura == <<"A","l","t","u","r","a">>
S_EstadoContentor == <<"E","s","t","a","d","o"," ","C","o","n","t","e","n","t","o","r">>
S_Unnamed == <<"U","n","n","a","m","e","d",":">>
S_Armazenado == <<"A","r","m","a","z","e","n","a","d","o">>
S_ForaDoArmazem == <<"F","o","r","a"," ","d","o"," ","A","r","m","a","z","é","m">>
S_nan == <<"n","a","n">>

\* str.strip(chars) of lines 45 and 50: double quote, single quote, space
QuoteSpace == {"\"", "'", " "}
\* what str.strip() with no argument removes
Whitespace == {" ", "\t"}
Digits == <<"0","1","2","3","4","5","6","7","8","9">>
DigitSet == {Digits[i] : i \in 1..10}

(* ----------------------------- str helpers ---------------------------- *)
RECURSIVE LStrip(_, _)
LStrip(s, cs) ==
  IF s # <<>> /\ Head(s) \in cs THEN LStrip(Tail(s), cs) ELSE s

RECURSIVE RStrip(_, _)
RStrip(s, cs) ==
  IF s # <<>> /\ s[Len(s)] \in cs THEN RStrip(SubSeq(s, 1, Len(s) - 1), cs) ELSE s

Strip(s, cs) == RStrip(LStrip(s, cs), cs)

StartsWith(s, p) == Len(s) >= Len(p) /\ SubSeq(s, 1, Len(p)) = p

Replace(s, a, b) == [i \in 1..Len(s) |-> IF s[i] = a THEN b ELSE s[i]]

DigitVal(c) == (CHOOSE i \in 1..10 : Digits[i] = c) - 1

RECURSIVE DigitsToNat(_)
DigitsToNat(s) ==
  IF s = <<>> THEN 0
  ELSE 10 * DigitsToNat(SubSeq(s, 1, Len(s) - 1)) + DigitVal(s[Len(s)])

RECURSIVE NatToDigits(_)
NatToDigits(n) ==
  IF n < 10 THEN <<Digits[n + 1]>>
  ELSE NatToDigits(n \div 10) \o <<Digits[(n % 10) + 1]>>

Abs(n) == IF n < 0 THEN -n ELSE n

(* ------------------------------- floats ------------------------------- *)
NaN == [nan |-> TRUE, m |-> 0, e |-> 0]

RECURSIVE Dec(_, _)
Dec(m, e) ==
  IF e > 0 /\ m % 10 = 0 THEN Dec(m \div 10, e - 1)
  ELSE [nan |-> FALSE, m |-> m, e |-> e]

\* the float literals 0.75 and 1.50 of lines 60, 101 and 107
H075 == Dec(75, 2)
H150 == Dec(150, 2)

\* repr of a float, as astype(str) writes a numeric cell
FloatRepr(v) ==
  LET ds  == NatToDigits(Abs(v.m))
      pad == IF Len(ds) <= v.e
             THEN [i \in 1..(v.e + 1 - Len(ds)) |-> "0"] \o ds
             ELSE ds
      ip  == SubSeq(pad, 1, Len(pad) - v.e)
      fp  == IF v.e = 0 THEN <<"0">> ELSE SubSeq(pad, Len(pad) - v.e + 1, Len(pad))
  IN  (IF v.m < 0 THEN <<"-">> ELSE <<>>) \o ip \o <<".">> \o fp

IntRepr(n) == (IF n < 0 THEN <<"-">> ELSE <<>>) \o NatToDigits(Abs(n))

(* ------------------------------- cells -------------------------------- *)
\* a spreadsheet cell as read_excel delivers it: text, a number, or blank
StrCell(s) == [t |-> "str", s |-> s, v |-> NaN]
FloatCell(m, e) == [t |-> "float", s |-> <<>>, v |-> Dec(m, e)]
IntCell(n) == [t |-> "int", s |-> <<>>, v |-> Dec(n, 0)]
BlankCell == [t |-> "nan", s |-> <<>>, v |-> NaN]

\* Series.astype(str)
AsStr(c) ==
  CASE c.t = "str"   -> c.s
    [] c.t = "float" -> FloatRepr(c.v)
    [] c.t = "int"   -> IntRepr(c.v.m)
    [] OTHER         -> S_nan

\* pd.to_numeric(errors='coerce') on one string: optional surrounding
\* whitespace, optional sign, digits with at most one decimal point;
\* anything else (and the text "nan") is NaN.  Exponent notation lies
\* outside the input alphabet used here.
ToNumeric(s) ==
  LET t    == Strip(s, Whitespace)
      neg  == t # <<>> /\ Head(t) = "-"
      body == IF t # <<>> /\ Head(t) \in {"-", "+"} THEN Tail(t) ELSE t
      dots == {i \in 1..Len(body) : body[i] = "."}
      ok   == /\ \A i \in 1..Len(body) : body[i] \in DigitSet \cup {"."}
              /\ Cardinality(dots) <= 1
              /\ \E i \in 1..Len(body) : body[i] \in DigitSet
      p    == IF dots = {} THEN Len(body) + 1 ELSE CHOOSE i \in dots : TRUE
      ip   == SubSeq(body, 1, p - 1)
      fp   == SubSeq(body, p + 1, Len(body))
      mag  == DigitsToNat(ip \o fp)
  IN  IF ok THEN Dec(IF neg THEN -mag ELSE mag, Len(fp)) ELSE NaN

(* ------------------------------ the sheet ----------------------------- *)
\* An uploaded file: whether read_excel can read it, the header row, and
\* the data rows.  A data row holds the cells of the first two columns; the
\* cells of any further column are blank.
CellAt(row, i) == IF i <= Len(row) THEN row[i] ELSE BlankCell

Msg(level, id, cols) == [level |-> level, id |-> id, cols |-> cols]

required_cols == <<S_Altura, S_EstadoContentor>>
\* a third admissible height slipped into the list
valid_heights_wide == {H075, H150, Dec(2, 0)}

valid_heights == {H075, H150}
valid_status == {S_Armazenado, S_ForaDoArmazem}

\* line 30-32: the columns left after the 'Unnamed:' ones are dropped
KeptCols(header) == {i \in 1..Len(header) : ~StartsWith(header[i].s, S_Unnamed)}

\* line 34: df.columns.str.strip()
CleanName(c) == Strip(c.s, Whitespace)

\* line 39: the required columns that are absent, in required_cols order
MissingCols(header) ==
  SelectSeq(required_cols,
            LAMBDA r : ~\E i \in KeptCols(header) : CleanName(header[i]) = r)

ColsNamed(header, name) == {i \in KeptCols(header) : CleanName(header[i]) = name}

\* line 45
CleanStatus(c) == Strip(Strip(AsStr(c), QuoteSpace), Whitespace)

\* lines 48-52
CleanAlturaText(c) == Replace(Strip(AsStr(c), QuoteSpace), ",", ".")

\* lines 48-56
CleanAltura(c) == ToNumeric(CleanAlturaText(c))

\* every height that parsed is kept, the isin filter forgotten
HeightKept_numeric(a) == ~a.nan

\* line 61: Series.isin(valid_heights)
HeightKept(a) == a \in valid_heights

\* the exception handler of lines 69-73
LoadError ==
  [df |-> <<>>,
   msgs |-> <<Msg("error", "Erro ao processar o arquivo", <<>>),
              Msg("warning", "Detalhe do erro", <<>>)>>]

\* load_data for a file that is not None.  df is <<>> for None, else a
\* one-element sequence holding the cleaned rows; each row keeps its pandas
\* index label (the 0-based position in the sheet).
load_data(file) ==
  IF ~file.readable THEN LoadError
  ELSE IF \E i \in 1..Len(file.header) : file.header[i].t # "str"
  THEN LoadError                  \* line 30: startswith on a non-str name
  ELSE IF MissingCols(file.header) # <<>>
  THEN [df |-> <<>>,
        msgs |-> <<Msg("error", "faltando colunas necessarias", MissingCols(file.header)),
                   Msg("info", "Verifique se as colunas estao nomeadas", <<>>)>>]
  ELSE IF \/ Cardinality(ColsNamed(file.header, S_EstadoContentor)) > 1
          \/ Cardinality(ColsNamed(file.header, S_Altura)) > 1
  THEN LoadError                  \* lines 45, 49: a DataFrame has no .str
  ELSE
    LET ca == CHOOSE i \in ColsNamed(file.header, S_Altura) : TRUE
        ce == CHOOSE i \in ColsNamed(file.header, S_EstadoContentor) : TRUE
        cleaned == [k \in 1..Len(file.rows) |->
                      [idx    |-> k - 1,
                       Altura |-> CleanAltura(CellAt(file.rows[k], ca)),
                       Estado |-> CleanStatus(CellAt(file.rows[k], ce))]]
        kept == SelectSeq(cleaned, LAMBDA r : HeightKept(r.Altura))
    IN  IF kept = <<>>
        THEN [df |-> <<>>,
              msgs |-> <<Msg("warning", "nao contem dados validos de Altura", <<>>)>>]
        ELSE [df |-> <<kept>>, msgs |-> <<>>]

(* ---------------------------- aggregation ----------------------------- *)
\* the status filter forgotten
FilterStatus_all(rows) == rows

\* line 82: df[df['Estado Contentor'].isin(valid_status)]
FilterStatus(rows) == SelectSeq(rows, LAMBDA r : r.Estado \in valid_status)

\* len(frame[(Estado == status) & (Altura == height)]), lines 89-110
CountStatus(rows, status) == Len(SelectSeq(rows, LAMBDA r : r.Estado = status))

CountStatusHeight(rows, status, height) ==
  Len(SelectSeq(rows, LAMBDA r : r.Estado = status /\ r.Altura = height))

\* a balance floored at zero
Saldo_clamped(capacity, stored) == IF capacity - stored < 0 THEN 0 ELSE capacity - stored

\* lines 98, 104, 110
Saldo(capacity, stored) == capacity - stored

\* the results dictionary of lines 93-111, from df_filtered
Results(filtered, geral, p075, p150) ==
  [total_armazenado   |-> CountStatus(filtered, S_Armazenado),
   total_fora_armazem |-> CountStatus(filtered, S_ForaDoArmazem),
   vagas_vazias_geral |-> Saldo(geral, CountStatus(filtered, S_Armazenado)),
   armazenado_075     |-> CountStatusHeight(filtered, S_Armazenado, H075),
   fora_armazem_075   |-> CountStatusHeight(filtered, S_ForaDoArmazem, H075),
   vagas_vazias_075   |-> Saldo(p075, CountStatusHeight(filtered, S_Armazenado, H075)),
   armazenado_150     |-> CountStatusHeight(filtered, S_Armazenado, H150),
   fora_armazem_150   |-> CountStatusHeight(filtered, S_ForaDoArmazem, H150),
   vagas_vazias_150   |-> Saldo(p150, CountStatusHeight(filtered, S_Armazenado, H150))]

(* ----------------------------- presenter ------------------------------ *)
\* f"{num:,}": the digits in groups of three, separated by commas
RECURSIVE GroupThousands(_)
GroupThousands(ds) ==
  IF Len(ds) <= 3 THEN ds
  ELSE GroupThousands(SubSeq(ds, 1, Len(ds) - 3)) \o <<",">>
         \o SubSeq(ds, Len(ds) - 2, Len(ds))

\* format_num, lines 119-121
format_num(num) ==
  Replace((IF num < 0 THEN <<"-">> ELSE <<>>) \o GroupThousands(NatToDigits(Abs(num))),
          ",", ".")

\* lines 154-162: the delta line of the overall balance KPI
DeltaVazias(vagas, geral) ==
  IF vagas >= 0
  THEN [text  |-> "% disponível",
        num   |-> <<>>,
        color |-> IF (IF geral # 0 THEN 2 * vagas >= geral ELSE FALSE)
                  THEN "normal" ELSE "off"]
  ELSE [text  |-> "Sobre-alocação",
        num   |-> format_num(Abs(vagas)),
        color |-> "inverse"]

\* lines 151-169
KpiVazias(vagas, geral) ==
  [title |-> "Vagas Vazias (Saldo)",
   value |-> format_num(vagas),
   delta |-> DeltaVazias(vagas, geral)]

\* the sign test written > instead of >=
TituloVazias_strict(prefix, vazias) ==
  IF vazias > 0 THEN <<prefix, "Vazias (Saldo)">> ELSE <<prefix, "Sobre-alocação">>

\* lines 199 and 211: the title of a per-height balance card
TituloVazias(prefix, vazias) ==
  IF vazias >= 0 THEN <<prefix, "Vazias (Saldo)">> ELSE <<prefix, "Sobre-alocação">>

\* lines 201 and 213
EstiloVazias(vazias) == IF vazias >= 0 THEN "style_vazio" ELSE "style_fora"

\* lines 196-203 and 208-215
CardVazias(prefix, vazias) ==
  [title |-> TituloVazias(prefix, vazias),
   style |-> EstiloVazias(vazias),
   value |-> format_num(vazias)]

\* lines 228 and 236
PieStatus(vazias) == IF vazias >= 0 THEN "Vazio" ELSE "Excesso de Ocupação"

\* lines 229-233 and 237-240: the two slices of a donut
PieData(armazenado, vazias) ==
  <<[Status |-> "Armazenado", Quantidade |-> armazenado],
    [Status |-> PieStatus(vazias), Quantidade |-> Abs(vazias)]>>

\* the whole cleaned table handed to st.dataframe
DetailTable_unfiltered(df_rows, filtered) == df_rows

\* line 347: the frame handed to st.dataframe
DetailTable(df_rows, filtered) == filtered

\* everything display_dashboard puts on the page, lines 139-347
Page(df_rows, filtered, r, geral) ==
  [kpi_ocupacao  |-> format_num(r.total_armazenado),
   kpi_vazias    |-> KpiVazias(r.vagas_vazias_geral, geral),
   kpi_fora      |-> format_num(r.total_fora_armazem),
   card_075      |-> CardVazias("0.75m", r.vagas_vazias_075),
   card_150      |-> CardVazias("1.50m", r.vagas_vazias_150),
   pie_075       |-> PieData(r.armazenado_075, r.vagas_vazias_075),
   pie_150       |-> PieData(r.armazenado_150, r.vagas_vazias_150),
   bar_fora      |-> <<r.fora_armazem_075, r.fora_armazem_150>>,
   data_explorer |-> DetailTable(df_rows, filtered)]

\* the early return of lines 84-86 left out
display_dashboard_noguard(df_rows, geral, p075, p150) ==
  LET df_filtered == FilterStatus(df_rows)
      r == Results(df_filtered, geral, p075, p150)
  IN  [results |-> <<r>>,
       page    |-> <<Page(df_rows, df_filtered, r, geral)>>,
       msgs    |-> <<>>]

\* display_dashboard, lines 75-347: the warning of line 85 and nothing
\* else, or the results and the page
display_dashboard(df_rows, geral, p075, p150) ==
  LET df_filtered == FilterStatus(df_rows)
  IN  IF df_filtered = <<>>
      THEN [results |-> <<>>, page |-> <<>>,
            msgs |-> <<Msg("warning", "Nenhum dado encontrado com os status", <<>>)>>]
      ELSE LET r == Results(df_filtered, geral, p075, p150)
           IN  [results |-> <<r>>,
                page    |-> <<Page(df_rows, df_filtered, r, geral)>>,
                msgs    |-> <<>>]

(* ------------------------------- inputs ------------------------------- *)
\* the defaults of the three number inputs, lines 361, 367, 368
DefaultGeral == 4060
Default075 == 2030
Default150 == 2030
\* min_value of the number inputs, lines 360, 367, 368
MinGeral == 1
MinAltura == 0

GeralValues == (MinGeral..MaxCap) \cup {DefaultGeral}
AlturaValues == (MinAltura..MaxCap) \cup {Default075, Default150}

T_Lote == <<"L","o","t","e">>
T_EmTransito == <<"E","m"," ","T","r","â","n","s","i","t","o">>

Col(s) == StrCell(s)
H_ok == <<Col(S_Altura), Col(S_EstadoContentor)>>
H_spaces == <<Col(<<" ">> \o S_Altura), Col(S_EstadoContentor \o <<" ">>),
              Col(S_Unnamed \o <<" ", "2">>)>>
H_noEstado == <<Col(S_Altura), Col(T_Lote)>>
H_noAltura == <<Col(T_Lote), Col(S_EstadoContentor)>>
H_none == <<Col(T_Lote), Col(S_Unnamed \o <<" ", "1">>)>>
H_unnamedAltura == <<Col(S_Unnamed \o <<" ", "0">>), Col(S_EstadoContentor)>>
H_twice == <<Col(S_Altura), Col(S_EstadoContentor), Col(S_Altura \o <<" ">>)>>
H_intMissing == <<Col(S_Altura), IntCell(2024)>>
H_intExtra == <<Col(S_Altura), Col(S_EstadoContentor), IntCell(2024)>>

\* header rows of the dashboard runs, and of the loader study
Headers == {H_ok, H_spaces, H_noEstado, H_intMissing}
LoaderHeaders == Headers \cup {H_noAltura, H_none, H_unnamedAltura, H_twice, H_intExtra}

A_075 == StrCell(<<"0",".","7","5">>)
A_150q == StrCell(<<"\"","1",",","5","0","\"">>)
E_Arm == StrCell(S_Armazenado)
E_ArmSp == StrCell(<<"\t">> \o S_Armazenado \o <<" ">>)
E_ForaQ == StrCell(<<"'">> \o S_ForaDoArmazem \o <<"'">>)
E_Fora == StrCell(S_ForaDoArmazem)
E_Transito == StrCell(T_EmTransito)

\* data rows of the dashboard runs: <<height cell, status cell>>
RowKinds ==
  { <<A_075, E_Arm>>, <<A_150q, E_ArmSp>>, <<FloatCell(75, 2), E_ForaQ>>,
    <<FloatCell(15, 1), E_Fora>>, <<A_075, E_Transito>>, <<IntCell(2), E_Arm>> }

\* height cells of the loader study
LoaderAlturas ==
  { A_075, A_150q, FloatCell(15, 1), FloatCell(75, 2), FloatCell(20, 1), IntCell(1),
    BlankCell,
    StrCell(<<"'","0",",","7","5","0"," ">>),
    StrCell(<<".","7","5">>),
    StrCell(<<"+","1",".","5">>),
    StrCell(<<"-","0",".","7","5">>),
    StrCell(<<"0",".","7","6">>),
    StrCell(<<"1",",","5",",","0">>),
    StrCell(<<"1",".","5","m">>),
    StrCell(<<>>) }

LoaderRowKinds ==
  {<<a, E_Arm>> : a \in LoaderAlturas}
    \cup {<<A_075, E_Transito>>, <<A_150q, BlankCell>>, <<A_150q, E_ForaQ>>}

Unreadable == [readable |-> FALSE, header |-> <<>>, rows |-> <<>>]
Sheet(header, rows) == [readable |-> TRUE, header |-> header, rows |-> rows]

\* The files the operator may submit next.  Successive uploads differ by
\* one edit of the sheet (a row appended, the last row removed, another
\* header row), which reaches every sheet of at most MaxRows rows.
NextFiles(cur, kinds, headers) ==
  IF cur = <<>> \/ ~cur[1].readable
  THEN {Sheet(h, <<>>) : h \in headers} \cup {Unreadable}
  ELSE LET f == cur[1]
       IN  {Sheet(f.header, Append(f.rows, r)) : r \in {k \in kinds : Len(f.rows) < MaxRows}}
             \cup {Sheet(f.header, SubSeq(f.rows, 1, Len(f.rows) - 1)) : x \in {1} \cap DOMAIN f.rows}
             \cup {Sheet(h, f.rows) : h \in headers \ {f.header}}
             \cup {Unreadable}

(* ------------------------------- state -------------------------------- *)
VARIABLES
  total_posicoes_geral,   \* number input, line 358
  total_posicoes_075,     \* number input, line 367
  total_posicoes_150,     \* number input, line 368
  uploaded_file,          \* file uploader, line 373: <<>> is None
  pc,                     \* where the current script run stands
  df,                     \* what load_data returned, line 389: <<>> is None
  results,                \* the results dictionary of this run, if computed
  page,                   \* what display_dashboard rendered in this run
  screen,                 \* st.error / st.warning / st.info of this run
  calls                   \* the functions this run has called, in order

vars == <<total_posicoes_geral, total_posicoes_075, total_posicoes_150,
          uploaded_file, pc, df, results, page, screen, calls>>

inputs == <<total_posicoes_geral, total_posicoes_075, total_posicoes_150, uploaded_file>>

Init ==
  /\ total_posicoes_geral = DefaultGeral
  /\ total_posicoes_075 = Default075
  /\ total_posicoes_150 = Default150
  /\ uploaded_file = <<>>
  /\ pc = "sidebar"
  /\ df = <<>>
  /\ results = <<>>
  /\ page = <<>>
  /\ screen = <<>>
  /\ calls = <<>>

\* every interaction re-runs the script from the top on an empty page
Rerun ==
  /\ pc' = "sidebar"
  /\ df' = <<>>
  /\ results' = <<>>
  /\ page' = <<>>
  /\ screen' = <<>>
  /\ calls' = <<>>

SetGeral ==
  /\ pc = "idle"
  /\ \E v \in GeralValues \ {total_posicoes_geral} : total_posicoes_geral' = v
  /\ UNCHANGED <<total_posicoes_075, total_posicoes_150, uploaded_file>>
  /\ Rerun

Set075 ==
  /\ pc = "idle"
  /\ \E v \in AlturaValues \ {total_posicoes_075} : total_posicoes_075' = v
  /\ UNCHANGED <<total_posicoes_geral, total_posicoes_150, uploaded_file>>
  /\ Rerun

Set150 ==
  /\ pc = "idle"
  /\ \E v \in AlturaValues \ {total_posicoes_150} : total_posicoes_150' = v
  /\ UNCHANGED <<total_posicoes_geral, total_posicoes_075, uploaded_file>>
  /\ Rerun

Upload(kinds, headers) ==
  /\ pc = "idle"
  /\ \E f \in NextFiles(uploaded_file, kinds, headers) : uploaded_file' = <<f>>
  /\ UNCHANGED <<total_posicoes_geral, total_posicoes_075, total_posicoes_150>>
  /\ Rerun

UploadFile == Upload(RowKinds, Headers)

UploadLoaderFile == Upload(LoaderRowKinds, LoaderHeaders)

RemoveFile ==
  /\ pc = "idle"
  /\ uploaded_file # <<>>
  /\ uploaded_file' = <<>>
  /\ UNCHANGED <<total_posicoes_geral, total_posicoes_075, total_posicoes_150>>
  /\ Rerun

\* line 370
CapacityMismatch(geral, p075, p150) == p075 + p150 # geral

ConfigWarning == Msg("warning", "A soma das posicoes nao corresponde ao total geral", <<>>)

\* the run stopped when the capacities disagree
AfterSidebar_stop(mismatch) == IF mismatch THEN "idle" ELSE "main"

\* lines 370-373: the warning is shown and the script goes on
AfterSidebar(mismatch) == "main"

\* lines 353-377
Sidebar ==
  /\ pc = "sidebar"
  /\ screen' = IF CapacityMismatch(total_posicoes_geral, total_posicoes_075, total_posicoes_150)
               THEN Append(screen, ConfigWarning) ELSE screen
  /\ pc' = AfterSidebar(CapacityMismatch(total_posicoes_geral, total_posicoes_075,
                                         total_posicoes_150))
  /\ UNCHANGED <<inputs, df, results, page, calls>>

\* lines 385-386
MainNoFile ==
  /\ pc = "main"
  /\ uploaded_file = <<>>
  /\ screen' = Append(screen, Msg("info", "Aguardando o envio do arquivo", <<>>))
  /\ pc' = "idle"
  /\ UNCHANGED <<inputs, df, results, page, calls>>

\* the None test of line 391 left out
GoesToDisplay_always(loaded) == TRUE

\* line 391: whether the main flow goes on to display_dashboard
GoesToDisplay(loaded) == loaded # <<>>

\* lines 387-391
MainLoad ==
  /\ pc = "main"
  /\ uploaded_file # <<>>
  /\ LET r == load_data(uploaded_file[1])
     IN  /\ df' = r.df
         /\ screen' = screen \o r.msgs
         /\ calls' = Append(calls, "load_data")
         /\ pc' = IF GoesToDisplay(r.df) THEN "display" ELSE "idle"
  /\ UNCHANGED <<inputs, results, page>>

\* line 393
DisplayDashboard ==
  /\ pc = "display"
  /\ LET d == display_dashboard(df[1], total_posicoes_geral,
                                total_posicoes_075, total_posicoes_150)
     IN  /\ results' = d.results
         /\ page' = d.page
         /\ screen' = screen \o d.msgs
  /\ calls' = Append(calls, "display_dashboard")
  /\ pc' = "idle"
  /\ UNCHANGED <<inputs, df>>

Next ==
  \/ SetGeral
  \/ Set075
  \/ Set150
  \/ UploadFile
  \/ RemoveFile
  \/ Sidebar
  \/ MainNoFile
  \/ MainLoad
  \/ DisplayDashboard

Spec == Init /\ [][Next]_vars

\* the loader study: the capacities stay at their defaults and the sheets
\* range over the wider header and height alphabets
LoaderNext ==
  \/ UploadLoaderFile
  \/ RemoveFile
  \/ Sidebar
  \/ MainNoFile
  \/ MainLoad
  \/ DisplayDashboard

LoaderSpec == Init /\ [][LoaderNext]_vars

(* ======================= properties of the loader ===================== *)
Called(f) == \E i \in 1..Len(calls) : calls[i] = f
OnScreen(level, id) == \E i \in 1..Len(screen) : screen[i].level = level /\ screen[i].id = id

\* the sheet row a cleaned row came from, by its index label
SourceRow(r) == uploaded_file[1].rows[r.idx + 1]

\* the height cell of sheet row k, once load_data has returned a table
AlturaCellOf(k) ==
  LET h == uploaded_file[1].header
      c == CHOOSE i \in 1..Len(h) :
             /\ h[i].t = "str"
             /\ ~StartsWith(h[i].s, S_Unnamed)
             /\ Strip(h[i].s, Whitespace) = S_Altura
  IN  CellAt(uploaded_file[1].rows[k], c)

IsExactly075or150(a) == ~a.nan /\ ((a.m = 75 /\ a.e = 2) \/ (a.m = 15 /\ a.e = 1))

\* C1: whenever load_data returns a table, every row of it has Altura equal
\* to exactly 0.75 or exactly 1.50, and no sheet row whose cleaned height
\* text fails to parse, or parses to another value, is in the table.
C1_OnlyValidHeights ==
  df # <<>> =>
    /\ \A i \in 1..Len(df[1]) : IsExactly075or150(df[1][i].Altura)
    /\ \A k \in 1..Len(uploaded_file[1].rows) :
         ~IsExactly075or150(ToNumeric(CleanAlturaText(AlturaCellOf(k))))
           => ~\E i \in 1..Len(df[1]) : df[1][i].idx = k - 1

\* a table came back that kept a row written "1,50" in quotes and dropped a
\* row whose height parsed to some other number
C1_Witness ==
  /\ df # <<>>
  /\ \E i \in 1..Len(df[1]) : SourceRow(df[1][i])[1] = A_150q
  /\ \E k \in 1..Len(uploaded_file[1].rows) :
       /\ ~ToNumeric(CleanAlturaText(AlturaCellOf(k))).nan
       /\ ~\E i \in 1..Len(df[1]) : df[1][i].idx = k - 1

\* the required columns absent from the header once the 'Unnamed:' columns
\* are gone and the names are trimmed, in the order Altura, Estado Contentor
AbsentRequired(h) ==
  SelectSeq(<<S_Altura, S_EstadoContentor>>,
            LAMBDA name : ~\E i \in 1..Len(h) :
                             /\ h[i].t = "str"
                             /\ ~StartsWith(h[i].s, S_Unnamed)
                             /\ Strip(h[i].s, Whitespace) = name)

MissingReported(cols) ==
  \E i \in 1..Len(screen) :
    /\ screen[i].level = "error"
    /\ screen[i].id = "faltando colunas necessarias"
    /\ screen[i].cols = cols

\* C4: once load_data has run on a readable sheet, if Altura or Estado
\* Contentor is absent after the header cleanup then no table is returned
\* and the missing-columns error naming exactly the absent columns is shown;
\* if both are present the missing-columns error is not shown.
C4_MissingColumnsNamed ==
  (Called("load_data") /\ uploaded_file[1].readable) =>
    LET absent == AbsentRequired(uploaded_file[1].header)
    IN  /\ absent # <<>> => (df = <<>> /\ MissingReported(absent))
        /\ absent = <<>> => ~OnScreen("error", "faltando colunas necessarias")

(* ====================== properties of the dashboard =================== *)
StoredRows == {i \in 1..Len(df[1]) : df[1][i].Estado = S_Armazenado}
OfHeight(rows, m, e) == {i \in rows : df[1][i].Altura.m = m /\ df[1][i].Altura.e = e}

\* C2: each balance equals its own capacity minus its own stored count,
\* the stored counts being the numbers of stored rows of the table, with no
\* clamping at zero.
C2_BalanceExact ==
  results # <<>> =>
    LET r == results[1]
    IN  /\ r.total_armazenado = Cardinality(StoredRows)
        /\ r.armazenado_075 = Cardinality(OfHeight(StoredRows, 75, 2))
        /\ r.armazenado_150 = Cardinality(OfHeight(StoredRows, 15, 1))
        /\ r.vagas_vazias_geral = total_posicoes_geral - r.total_armazenado
        /\ r.vagas_vazias_075 = total_posicoes_075 - r.armazenado_075
        /\ r.vagas_vazias_150 = total_posicoes_150 - r.armazenado_150

\* more rows stored than the capacity, overall and for 0.75m
C2_Witness ==
  /\ results # <<>>
  /\ results[1].vagas_vazias_geral < 0
  /\ results[1].vagas_vazias_075 < 0

Recognized(r) == r.Estado = S_Armazenado \/ r.Estado = S_ForaDoArmazem

\* C3: rows whose status is neither 'Armazenado' nor 'Fora do Armazém'
\* contribute to nothing: the results of a run are those display_dashboard
\* gives for the same table with every such row removed.
C3_OtherStatusIgnored ==
  Called("display_dashboard") =>
    results = display_dashboard(SelectSeq(df[1], Recognized), total_posicoes_geral,
                                total_posicoes_075, total_posicoes_150).results

\* a table with a recognized and an unrecognized row was aggregated
C3_Witness ==
  /\ Called("display_dashboard")
  /\ results # <<>>
  /\ \E i \in 1..Len(df[1]) : ~Recognized(df[1][i])

LoaderFailed == Called("load_data") /\ df = <<>>

FailureReports ==
  {id \in {"Erro ao processar o arquivo", "faltando colunas necessarias",
           "nao contem dados validos de Altura"} :
     \E i \in 1..Len(screen) : screen[i].id = id}

\* C5: in a run in which load_data fails, the run ends with exactly one of
\* the three failure reports on screen, display_dashboard is not called and
\* nothing is rendered; display_dashboard runs only after load_data has
\* returned a table.
C5_NoDisplayAfterFailure ==
  /\ LoaderFailed =>
       /\ pc = "idle"
       /\ ~Called("display_dashboard")
       /\ page = <<>> /\ results = <<>>
       /\ Cardinality(FailureReports) = 1
  /\ (pc = "display" \/ Called("display_dashboard")) =>
       (df # <<>> /\ calls[1] = "load_data")
  /\ (page # <<>> \/ results # <<>>) => Called("display_dashboard")

\* a readable sheet with both columns and a data row, none of valid height
C5_Witness ==
  /\ LoaderFailed
  /\ uploaded_file[1].rows # <<>>
  /\ OnScreen("warning", "nao contem dados validos de Altura")

\* C6: when display_dashboard runs on a table without any row of status
\* 'Armazenado' or 'Fora do Armazém' it shows the warning, computes no
\* results and renders nothing; with at least one such row the results are
\* computed and the page is rendered.
C6_EmptyFilterWarning ==
  Called("display_dashboard") =>
    IF \E i \in 1..Len(df[1]) : Recognized(df[1][i])
    THEN /\ results # <<>> /\ page # <<>>
         /\ ~OnScreen("warning", "Nenhum dado encontrado com os status")
    ELSE /\ results = <<>> /\ page = <<>>
         /\ OnScreen("warning", "Nenhum dado encontrado com os status")

\* a loaded table, none of whose rows has a recognized status
C6_Witness ==
  /\ Called("display_dashboard")
  /\ df # <<>>
  /\ \A i \in 1..Len(df[1]) : ~Recognized(df[1][i])

ConfigWarned == \E i \in 1..Len(screen) : screen[i] = ConfigWarning

\* C7: the capacity warning is on screen exactly when the two per-height
\* capacities do not add up to the overall one, and it changes nothing:
\* the finished run has loaded the file, and displayed the table, as the
\* file alone decides, and the overall balance is the overall capacity
\* minus the stored rows whatever the per-height capacities are.
C7_WarningAdvisory ==
  /\ pc # "sidebar" =>
       (ConfigWarned <=> total_posicoes_075 + total_posicoes_150 # total_posicoes_geral)
  /\ pc = "idle" =>
       /\ Called("load_data") <=> uploaded_file # <<>>
       /\ Called("display_dashboard") <=> df # <<>>
       /\ uploaded_file # <<>> => df = load_data(uploaded_file[1]).df
  /\ results # <<>> =>
       /\ results[1].vagas_vazias_geral = total_posicoes_geral - Cardinality(StoredRows)
       /\ \A a, b \in AlturaValues :
            LET other == display_dashboard(df[1], total_posicoes_geral, a, b).results[1]
            IN  /\ other.vagas_vazias_geral = results[1].vagas_vazias_geral
                /\ other.total_armazenado = results[1].total_armazenado
                /\ other.total_fora_armazem = results[1].total_fora_armazem

\* the warning fired and the dashboard was computed all the same
C7_Witness ==
  /\ pc = "idle"
  /\ ConfigWarned
  /\ results # <<>>
  /\ results[1].vagas_vazias_geral
       # results[1].vagas_vazias_075 + results[1].vagas_vazias_150

\* C8 as stated: every row of the loader's table is in the detail table
C8_DetailShowsEveryRow ==
  page # <<>> =>
    \A i \in 1..Len(df[1]) :
      \E j \in 1..Len(page[1].data_explorer) : page[1].data_explorer[j] = df[1][i]

\* C8, amended: the detail table is the loader's table restricted to the
\* rows of status 'Armazenado' or 'Fora do Armazém', in their order; a row
\* of any other status is not in it.
C8_DetailShowsFilteredRows ==
  page # <<>> =>
    /\ page[1].data_explorer = SelectSeq(df[1], Recognized)
    /\ \A i \in 1..Len(df[1]) :
         ~Recognized(df[1][i]) =>
           ~\E j \in 1..Len(page[1].data_explorer) : page[1].data_explorer[j] = df[1][i]

\* a page rendered from a table that holds a row of another status
C8_Witness ==
  /\ page # <<>>
  /\ \E i \in 1..Len(df[1]) : ~Recognized(df[1][i])

\* the integer a displayed number stands for: the grouping points dropped
DisplayedInt(s) ==
  LET ds == SelectSeq(s, LAMBDA c : c \in DigitSet)
  IN  IF s # <<>> /\ Head(s) = "-" THEN -DigitsToNat(ds) ELSE DigitsToNat(ds)

ShowsBalances ==
  /\ DisplayedInt(page[1].kpi_vazias.value) = results[1].vagas_vazias_geral
  /\ DisplayedInt(page[1].card_075.value) = results[1].vagas_vazias_075
  /\ DisplayedInt(page[1].card_150.value) = results[1].vagas_vazias_150

CardLabelFollowsSign(card, prefix, vazias) ==
  /\ vazias >= 0 => card.title = <<prefix, "Vazias (Saldo)">>
  /\ vazias < 0 => card.title = <<prefix, "Sobre-alocação">>

PieFollowsSign(pie, vazias) ==
  /\ pie[2].Status = (IF vazias < 0 THEN "Excesso de Ocupação" ELSE "Vazio")
  /\ pie[2].Quantidade = (IF vazias < 0 THEN -vazias ELSE vazias)

PerHeightFollowSign ==
  /\ CardLabelFollowsSign(page[1].card_075, "0.75m", results[1].vagas_vazias_075)
  /\ CardLabelFollowsSign(page[1].card_150, "1.50m", results[1].vagas_vazias_150)
  /\ PieFollowsSign(page[1].pie_075, results[1].vagas_vazias_075)
  /\ PieFollowsSign(page[1].pie_150, results[1].vagas_vazias_150)

\* C9 as stated: all three balances are shown with their signed value and
\* the label of each, the overall one included, is the empty-slots label
\* when the balance is >= 0 and an over-allocation label when it is < 0.
C9_LabelSwitchesForAllThree ==
  page # <<>> =>
    /\ ShowsBalances
    /\ PerHeightFollowSign
    /\ (results[1].vagas_vazias_geral < 0
          <=> page[1].kpi_vazias.title # "Vagas Vazias (Saldo)")

\* C9, amended: all three balances are shown with their signed value; the
\* title of each per-height card is the empty-slots one when the balance is
\* >= 0 and the over-allocation one when it is < 0, and the donut's second
\* slice follows the same rule with quantity |balance|; the overall KPI
\* keeps the title 'Vagas Vazias (Saldo)' whatever the sign, and it is its
\* delta line that reads 'Sobre-alocação' with |balance| exactly when the
\* balance is negative.
C9_LabelsFollowSign ==
  page # <<>> =>
    /\ ShowsBalances
    /\ PerHeightFollowSign
    /\ page[1].kpi_vazias.title = "Vagas Vazias (Saldo)"
    /\ (results[1].vagas_vazias_geral < 0
          <=> page[1].kpi_vazias.delta.text = "Sobre-alocação")
    /\ results[1].vagas_vazias_geral < 0 =>
         DisplayedInt(page[1].kpi_vazias.delta.num) = -results[1].vagas_vazias_geral

\* a page with the overall and the 0.75m balance negative and the 1.50m
\* balance zero
C9_Witness ==
  /\ page # <<>>
  /\ results[1].vagas_vazias_geral < 0
  /\ results[1].vagas_vazias_075 < 0
  /\ results[1].vagas_vazias_150 = 0

\* C10: the per-height counts add up to the totals, so the overall balance
\* is the sum of the two per-height balances exactly when the two
\* per-height capacities add up to the overall capacity.
C10_HeightsPartitionTotals ==
  results # <<>> =>
    LET r == results[1]
    IN  /\ r.total_armazenado = r.armazenado_075 + r.armazenado_150
        /\ r.total_fora_armazem = r.fora_armazem_075 + r.fora_armazem_150
        /\ (r.vagas_vazias_geral = r.vagas_vazias_075 + r.vagas_vazias_150
              <=> total_posicoes_075 + total_posicoes_150 = total_posicoes_geral)

\* stored and outside rows counted under capacities that add up
C10_Witness ==
  /\ results # <<>>
  /\ results[1].total_armazenado > 0
  /\ results[1].total_fora_armazem > 0
  /\ total_posicoes_075 + total_posicoes_150 = total_posicoes_geral

====
